---- MODULE Spec2Model ----
(***************************************************************************)
(* Model of passivized_htpasswd (src/src/lib.rs, src/src/errors.rs): the   *)
(* Htpasswd credential table, its set / set_with / verify / to_string /    *)
(* write_to_path operations, and the dispatch over Algo.                   *)
(*                                                                         *)
(* A Rust String is a sequence of tokens (TLA+ strings).  Usernames and    *)
(* passwords are sequences of one-character tokens; a hash string is the   *)
(* sequence of the fields the crates format into it.  The bcrypt and       *)
(* pwhash crates and IndexMap are collaborators called from lib.rs; they   *)
(* are modelled at their call sites by their documented contracts: the     *)
(* digest is an injective function of (password, salt, work factor), the   *)
(* salt is drawn at random, and the primitive may report a failure.        *)
(***************************************************************************)
EXTENDS Integers, Sequences, FiniteSets, TLC

VARIABLES
    entries,    \* Htpasswd.entries: IndexMap<String, String>, in iteration order
    call,       \* the operation of the last step and its arguments
    ret,        \* what that operation returned
    trace,      \* what that operation did: variants entered, primitive called, hash, file writes
    firstSeen,  \* history: usernames in the order of their first successful set
    lastOk      \* history: per username, the last successful set (entry point, family, password)

vars == <<entries, call, ret, trace, firstSeen, lastOk>>

-----------------------------------------------------------------------------
(* Bounds and inputs *)

NumSalts == 2
Salts == { "salt" \o ToString(i) : i \in 1..NumSalts }

\* the usernames and passwords of the tests in lib.rs
Usernames == { <<"f", "o", "o">>, <<"q", "u", "x">> }
DispatchUsernames == { <<"a">> }
AllUsernames == Usernames \cup DispatchUsernames
Passwords == { <<"b">>, <<"c">> }

-----------------------------------------------------------------------------
(* Constants of the crates named in lib.rs *)

DEFAULT_COST == 12
MIN_COST == 4
MAX_COST == 31
MIN_ROUNDS == 1000
MAX_ROUNDS == 999999999
DEFAULT_ROUNDS == 5000

\* cost and rounds arguments a caller may pass (u32), around the limits
CostInputs == { MIN_COST - 1, MIN_COST, DEFAULT_COST, MAX_COST, MAX_COST + 1 }
RoundsInputs == { MIN_ROUNDS - 1, MIN_ROUNDS, DEFAULT_ROUNDS, MAX_ROUNDS, MAX_ROUNDS + 1 }

-----------------------------------------------------------------------------
(* enum Algo *)

Alg(tag, n) == [tag |-> tag, n |-> n]

Algo ==
    { Alg("Bcrypt", c) : c \in CostInputs }
    \cup { Alg("BcryptMinCost", 0), Alg("BCryptDefault", 0) }
    \cup { Alg("Sha512", r) : r \in RoundsInputs }
    \cup { Alg("Sha512Default", 0), Alg("Sha512MinRounds", 0) }

\* the variants used where the table holds several entries: one that bcrypt
\* rejects and one delegating variant of each family
TableAlgo == { Alg("Bcrypt", MIN_COST - 1), Alg("BcryptMinCost", 0), Alg("Sha512MinRounds", 0) }

-----------------------------------------------------------------------------
(* Strings *)

RECURSIVE Flat(_)
\* the bytes of a string, as handed to a primitive (password.as_ref())
Flat(s) == IF s = <<>> THEN "" ELSE Head(s) \o Flat(Tail(s))

\* format!("{:02}", n)
Fmt02(n) == IF n < 10 THEN "0" \o ToString(n) ELSE ToString(n)

\* Option<u32>
Some(n) == [some |-> TRUE, n |-> n]
None == [some |-> FALSE, n |-> 0]

-----------------------------------------------------------------------------
(* errors.rs *)

\* impl From<BcryptError> for HtpasswdError
From(other) == "BCrypt(" \o other \o ")"

-----------------------------------------------------------------------------
(* bcrypt crate, as called at lib.rs:96-97 *)

\* bcrypt::hash_with_result(password, cost): the cost range is checked first, then
\* a random salt is drawn and the digest computed; `fail` is an internal failure.
hash_with_result(password, cost, salt, fail) ==
    IF cost < MIN_COST \/ cost > MAX_COST
    THEN [ok |-> FALSE, err |-> "CostNotAllowedRange", cost |-> 0, salt |-> "", hash |-> ""]
    ELSE IF fail
    THEN [ok |-> FALSE, err |-> "Rand", cost |-> 0, salt |-> "", hash |-> ""]
    ELSE [ok |-> TRUE, err |-> "", cost |-> cost, salt |-> salt,
          hash |-> "bcrypt(" \o Flat(password) \o "," \o salt \o "," \o ToString(cost) \o ")"]

\* a faulty formatter: the crate's default tag, whatever version is asked for
format_for_version_2b(parts, version) ==
    <<"$", "2b", "$", Fmt02(parts.cost), "$", parts.salt, parts.hash>>

\* HashParts::format_for_version(version): "$<version>$<cost:02>$<salt><hash>"
format_for_version(parts, version) ==
    <<"$", version, "$", Fmt02(parts.cost), "$", parts.salt, parts.hash>>

-----------------------------------------------------------------------------
(* pwhash::sha512_crypt, as called at lib.rs:106-114 and lib.rs:134 *)

\* rounds outside MIN_ROUNDS..MAX_ROUNDS are coerced to the nearest limit
CoerceRounds(rounds) ==
    IF ~rounds.some THEN rounds
    ELSE IF rounds.n < MIN_ROUNDS THEN Some(MIN_ROUNDS)
    ELSE IF rounds.n > MAX_ROUNDS THEN Some(MAX_ROUNDS)
    ELSE rounds

\* the crypt string: "$6$rounds=<n>$<salt>$<digest>", the rounds clause only
\* when a rounds value was given; the digest uses DEFAULT_ROUNDS otherwise
do_sha512_crypt(password, salt, rounds) ==
    LET n == IF rounds.some THEN rounds.n ELSE DEFAULT_ROUNDS
        digest == "sha512(" \o Flat(password) \o "," \o salt \o "," \o ToString(n) \o ")"
    IN  IF rounds.some
        THEN <<"$", "6", "$", "rounds=", ToString(rounds.n), "$", salt, "$", digest>>
        ELSE <<"$", "6", "$", salt, "$", digest>>

\* pwhash::sha512_crypt::hash_with(HashSetup { rounds, salt: None }, password):
\* salt: None results in a random, max-length salt
sha512_hash_with(rounds, password, salt, fail) ==
    IF fail
    THEN [ok |-> FALSE, err |-> "RandomError", hash |-> <<>>]
    ELSE [ok |-> TRUE, err |-> "", hash |-> do_sha512_crypt(password, salt, CoerceRounds(rounds))]

\* pwhash::sha512_crypt::hash(password): default setup, no rounds given
sha512_hash(password, salt, fail) == sha512_hash_with(None, password, salt, fail)

\* the decimal rounds value of a rounds clause
ParseRounds(tok) == CHOOSE n \in RoundsInputs : tok = ToString(n)

\* the setup (rounds, salt) read back from a "$6$..." hash string
parse_sha512_hash(hash) ==
    IF Len(hash) >= 6 /\ hash[1] = "$" /\ hash[2] = "6" /\ hash[3] = "$"
    THEN IF hash[4] = "rounds=" /\ Len(hash) >= 9
         THEN [ok |-> TRUE, rounds |-> Some(ParseRounds(hash[5])), salt |-> hash[7]]
         ELSE [ok |-> TRUE, rounds |-> None, salt |-> hash[4]]
    ELSE [ok |-> FALSE, rounds |-> None, salt |-> ""]

\* pwhash::sha512_crypt::verify(password, hash): re-hash the password with the
\* setup read from the hash and compare the two strings
sha512_verify(password, hashed) ==
    LET setup == parse_sha512_hash(hashed)
    IN  /\ setup.ok
        /\ do_sha512_crypt(password, setup.salt, CoerceRounds(setup.rounds)) = hashed

-----------------------------------------------------------------------------
(* IndexMap<String, String> *)

Keys(es) == [i \in 1..Len(es) |-> es[i].u]

IndexOf(es, username) ==
    IF \E i \in 1..Len(es) : es[i].u = username
    THEN CHOOSE i \in 1..Len(es) : es[i].u = username
    ELSE 0

\* IndexMap::get
get(es, username) ==
    LET i == IndexOf(es, username)
    IN  IF i = 0 THEN [some |-> FALSE, v |-> <<>>] ELSE [some |-> TRUE, v |-> es[i].p]

\* a faulty insert: removes the old entry and appends the new one
insert_move_to_end(es, username, encrypted) ==
    SelectSeq(es, LAMBDA e : e.u # username) \o <<[u |-> username, p |-> encrypted]>>

\* a faulty insert: always appends
insert_append(es, username, encrypted) ==
    Append(es, [u |-> username, p |-> encrypted])

\* a faulty insert: a new key evicts the oldest entry
insert_evict(es, username, encrypted) ==
    IF IndexOf(es, username) = 0
    THEN (IF es = <<>> THEN es ELSE Tail(es)) \o <<[u |-> username, p |-> encrypted]>>
    ELSE [es EXCEPT ![IndexOf(es, username)].p = encrypted]

\* IndexMap::insert: a key already present keeps its position and gets the new
\* value; a new key is appended
insert(es, username, encrypted) ==
    LET i == IndexOf(es, username)
    IN  IF i = 0
        THEN Append(es, [u |-> username, p |-> encrypted])
        ELSE [es EXCEPT ![i].p = encrypted]

-----------------------------------------------------------------------------
(* impl Htpasswd *)

Outcome(ok, err, encrypted, chain, site) ==
    [ok |-> ok, err |-> err, encrypted |-> encrypted, chain |-> chain, site |-> site]

\* a faulty dispatch: BcryptMinCost is resolved through BCryptDefault
RECURSIVE set_with_via_default(_, _, _, _, _)
set_with_via_default(algo, password, salt, fail, chain) ==
    LET entered == Append(chain, algo)
    IN  CASE algo.tag = "Bcrypt" ->
                LET r == hash_with_result(password, algo.n, salt, fail)
                IN  IF r.ok
                    THEN Outcome(TRUE, "", format_for_version(r, "2a"), entered, "bcrypt::hash_with_result")
                    ELSE Outcome(FALSE, From(r.err), <<>>, entered, "bcrypt::hash_with_result")
          [] algo.tag = "BCryptDefault" ->
                set_with_via_default(Alg("Bcrypt", DEFAULT_COST), password, salt, fail, entered)
          [] algo.tag = "BcryptMinCost" ->
                set_with_via_default(Alg("BCryptDefault", 0), password, salt, fail, entered)
          [] algo.tag = "Sha512" ->
                LET r == sha512_hash_with(Some(algo.n), password, salt, fail)
                IN  IF r.ok
                    THEN Outcome(TRUE, "", r.hash, entered, "sha512_crypt::hash_with")
                    ELSE Outcome(FALSE, r.err, <<>>, entered, "sha512_crypt::hash_with")
          [] algo.tag = "Sha512Default" ->
                LET r == sha512_hash(password, salt, fail)
                IN  IF r.ok
                    THEN Outcome(TRUE, "", r.hash, entered, "sha512_crypt::hash")
                    ELSE Outcome(FALSE, r.err, <<>>, entered, "sha512_crypt::hash")
          [] algo.tag = "Sha512MinRounds" ->
                set_with_via_default(Alg("Sha512", MIN_ROUNDS), password, salt, fail, entered)

\* Htpasswd::set_with, lines 92-119: the match over algo.  Each entry into
\* set_with is recorded in `chain`; a default/min variant returns the result of
\* the recursive call, the other variants call their primitive and `?` returns
\* its error: a BcryptError through From (errors.rs), a pwhash error under its
\* own name.  `salt` and `fail` are the primitive's random salt and its
\* internal failure.
RECURSIVE set_with_match(_, _, _, _, _)
set_with_match(algo, password, salt, fail, chain) ==
    LET entered == Append(chain, algo)
    IN  CASE algo.tag = "Bcrypt" ->
                LET r == hash_with_result(password, algo.n, salt, fail)
                IN  IF r.ok
                    THEN Outcome(TRUE, "", format_for_version(r, "2a"), entered, "bcrypt::hash_with_result")
                    ELSE Outcome(FALSE, From(r.err), <<>>, entered, "bcrypt::hash_with_result")
          [] algo.tag = "BCryptDefault" ->
                set_with_match(Alg("Bcrypt", DEFAULT_COST), password, salt, fail, entered)
          [] algo.tag = "BcryptMinCost" ->
                set_with_match(Alg("Bcrypt", MIN_COST), password, salt, fail, entered)
          [] algo.tag = "Sha512" ->
                LET r == sha512_hash_with(Some(algo.n), password, salt, fail)
                IN  IF r.ok
                    THEN Outcome(TRUE, "", r.hash, entered, "sha512_crypt::hash_with")
                    ELSE Outcome(FALSE, r.err, <<>>, entered, "sha512_crypt::hash_with")
          [] algo.tag = "Sha512Default" ->
                LET r == sha512_hash(password, salt, fail)
                IN  IF r.ok
                    THEN Outcome(TRUE, "", r.hash, entered, "sha512_crypt::hash")
                    ELSE Outcome(FALSE, r.err, <<>>, entered, "sha512_crypt::hash")
          [] algo.tag = "Sha512MinRounds" ->
                set_with_match(Alg("Sha512", MIN_ROUNDS), password, salt, fail, entered)

\* a faulty store: the entry is written before the error is looked at
store_before_check(es, out, username) == insert(es, username, out.encrypted)

\* Htpasswd::set_with, lines 119-123: an error has returned before the insert;
\* otherwise the entry is stored
store(es, out, username) ==
    IF out.ok THEN insert(es, username, out.encrypted) ELSE es

\* a faulty serializer: entries are separated, not terminated, by the newline
RECURSIVE to_string_loop_sep(_, _, _)
to_string_loop_sep(es, i, result) ==
    IF i > Len(es) THEN result
    ELSE to_string_loop_sep(es, i + 1,
            result \o (IF i > 1 THEN <<"\n">> ELSE <<>>) \o es[i].u \o <<":">> \o es[i].p)

\* ToString for Htpasswd, lines 159-164: the loop over &self.entries (the
\* capacity computed at lines 152-155 only sizes the buffer)
RECURSIVE to_string_loop(_, _, _)
to_string_loop(es, i, result) ==
    IF i > Len(es) THEN result
    ELSE to_string_loop(es, i + 1, result \o es[i].u \o <<":">> \o es[i].p \o <<"\n">>)

\* ToString for Htpasswd
to_string(es) == to_string_loop(es, 1, <<>>)

\* a faulty verify: any password is accepted for a known username
verify_any(es, username, password) == get(es, username).some

\* Htpasswd::verify
verify(es, username, password) ==
    LET hashed == get(es, username)
    IN  IF hashed.some THEN sha512_verify(password, hashed.v) ELSE FALSE

-----------------------------------------------------------------------------
(* State machine *)

NoAlgo == Alg("none", 0)
NoTrace == [chain |-> <<>>, site |-> "", encrypted |-> <<>>, fswrites |-> <<>>]
Call(op, algo, username, password) ==
    [op |-> op, algo |-> algo, username |-> username, password |-> password]
Ret(kind, err, bool, str) == [kind |-> kind, err |-> err, bool |-> bool, str |-> str]

\* Htpasswd::new
Init ==
    /\ entries = <<>>
    /\ call = Call("new", NoAlgo, <<>>, <<>>)
    /\ ret = Ret("Self", "", FALSE, <<>>)
    /\ trace = NoTrace
    /\ firstSeen = <<>>
    /\ lastOk = [u \in AllUsernames |-> [set |-> FALSE, by |-> "", sha |-> FALSE, password |-> <<>>]]

\* one call of set_with from outside, named `op` in the record of the call
SetWithCall(op, algo, username, password) ==
    \E salt \in Salts, fail \in BOOLEAN :
        LET out == set_with_match(algo, password, salt, fail, <<>>)
        IN  /\ entries' = store(entries, out, username)
            /\ call' = Call(op, algo, username, password)
            /\ ret' = IF out.ok THEN Ret("Ok", "", FALSE, <<>>) ELSE Ret("Err", out.err, FALSE, <<>>)
            /\ trace' = [chain |-> out.chain, site |-> out.site,
                         encrypted |-> out.encrypted, fswrites |-> <<>>]
            /\ firstSeen' = IF out.ok /\ \A i \in 1..Len(firstSeen) : firstSeen[i] # username
                            THEN Append(firstSeen, username) ELSE firstSeen
            /\ lastOk' = IF out.ok
                         THEN [lastOk EXCEPT ![username] =
                                 [set |-> TRUE,
                                  by |-> op,
                                  sha |-> algo.tag \in {"Sha512", "Sha512Default", "Sha512MinRounds"},
                                  password |-> password]]
                         ELSE lastOk

\* Htpasswd::set_with
SetWith(algo, username, password) == SetWithCall("set_with", algo, username, password)

\* Htpasswd::set
Set(username, password) == SetWithCall("set", Alg("BCryptDefault", 0), username, password)

\* Htpasswd::verify
Verify(username, password) ==
    /\ call' = Call("verify", NoAlgo, username, password)
    /\ ret' = Ret("bool", "", verify(entries, username, password), <<>>)
    /\ trace' = NoTrace
    /\ UNCHANGED <<entries, firstSeen, lastOk>>

\* ToString::to_string
ToStringCall ==
    /\ call' = Call("to_string", NoAlgo, <<>>, <<>>)
    /\ ret' = Ret("String", "", FALSE, to_string(entries))
    /\ trace' = NoTrace
    /\ UNCHANGED <<entries, firstSeen, lastOk>>

\* a faulty write_to_path: the table is drained while it is written
write_drain(es, writable) ==
    [entries |-> <<>>,
     fswrites |-> <<[data |-> to_string(es), ok |-> writable]>>,
     ret |-> IF writable THEN Ret("Ok", "", FALSE, <<>>) ELSE Ret("Err", "io::Error", FALSE, <<>>)]

\* Htpasswd::write_to_path: std::fs::write(path, self.to_string()); `writable`
\* says whether the path can be created and written.  fswrites lists the calls
\* of std::fs::write, each with the data passed and whether it succeeded
write_to_path(es, writable) ==
    [entries |-> es,
     fswrites |-> <<[data |-> to_string(es), ok |-> writable]>>,
     ret |-> IF writable THEN Ret("Ok", "", FALSE, <<>>) ELSE Ret("Err", "io::Error", FALSE, <<>>)]

WriteToPath(writable) ==
    LET w == write_to_path(entries, writable)
    IN  /\ entries' = w.entries
        /\ call' = Call("write_to_path", NoAlgo, <<>>, <<>>)
        /\ ret' = w.ret
        /\ trace' = [NoTrace EXCEPT !.fswrites = w.fswrites]
        /\ UNCHANGED <<firstSeen, lastOk>>

\* the table with several usernames
Next ==
    \/ \E a \in TableAlgo, u \in Usernames, p \in Passwords : SetWith(a, u, p)
    \/ \E u \in Usernames, p \in Passwords : Set(u, p)
    \/ \E u \in Usernames, p \in Passwords : Verify(u, p)
    \/ ToStringCall
    \/ \E w \in BOOLEAN : WriteToPath(w)

Spec == Init /\ [][Next]_vars

\* every variant of Algo, on a table of one username
NextDispatch ==
    \/ \E a \in Algo, u \in DispatchUsernames, p \in Passwords : SetWith(a, u, p)
    \/ \E u \in DispatchUsernames, p \in Passwords : Set(u, p)
    \/ \E u \in AllUsernames, p \in Passwords : Verify(u, p)
    \/ ToStringCall
    \/ \E w \in BOOLEAN : WriteToPath(w)

SpecDispatch == Init /\ [][NextDispatch]_vars

-----------------------------------------------------------------------------
(* Properties *)

IsSet(c) == c.op \in {"set", "set_with"}

Foo == <<"f", "o", "o">>
Qux == <<"q", "u", "x">>

\* C1: the table never holds two entries with the same username, and after a
\* successful set / set_with the username's single entry holds the hash this
\* call produced.
C1_UniqueLatestHash ==
    /\ \A i, j \in 1..Len(entries) : i # j => entries[i].u # entries[j].u
    /\ (IsSet(call) /\ ret.kind = "Ok") =>
          /\ Cardinality({ i \in 1..Len(entries) : entries[i].u = call.username }) = 1
          /\ \A i \in 1..Len(entries) :
                entries[i].u = call.username => entries[i].p = trace.encrypted

\* a successful set of the first of two usernames, set again with the other password
C1_Witness ==
    /\ IsSet(call) /\ ret.kind = "Ok"
    /\ firstSeen = <<Foo, Qux>>
    /\ call.username = Foo
    /\ call.password = <<"c">>
    /\ Len(entries) = 2

\* C2: a set / set_with call that returns an error leaves the table exactly as
\* it was: same entries, same hashes, same order.
C2_FailedSetLeavesTable ==
    [][(IsSet(call') /\ ret'.kind = "Err") => entries' = entries]_vars

\* a delegating variant failed on a table of two entries
C2_Witness ==
    /\ call.op = "set_with" /\ ret.kind = "Err"
    /\ call.algo.tag \in {"BcryptMinCost", "Sha512MinRounds"}
    /\ Len(trace.chain) = 2
    /\ Len(entries) = 2

LineLen(e) == Len(e.u) + 1 + Len(e.p) + 1

RECURSIVE Offset(_, _)
Offset(es, i) == IF i <= 1 THEN 0 ELSE Offset(es, i - 1) + LineLen(es[i - 1])

\* C3: to_string returns, for each entry in table order, username ":" hash
\* "\n", and nothing else: one line per entry, the empty string for an empty
\* table.
C3_ToStringLines ==
    call.op = "to_string" =>
        LET out == ret.str
        IN  /\ ret.kind = "String"
            /\ Len(out) = Offset(entries, Len(entries) + 1)
            /\ Cardinality({ k \in 1..Len(out) : out[k] = "\n" }) = Len(entries)
            /\ \A i \in 1..Len(entries) :
                  LET o == Offset(entries, i)
                      e == entries[i]
                  IN  /\ SubSeq(out, o + 1, o + Len(e.u)) = e.u
                      /\ out[o + Len(e.u) + 1] = ":"
                      /\ SubSeq(out, o + Len(e.u) + 2, o + Len(e.u) + 1 + Len(e.p)) = e.p
                      /\ out[o + LineLen(e)] = "\n"

\* foo then qux were set and the table was serialized
C3_Witness ==
    /\ call.op = "to_string"
    /\ Keys(entries) = <<Foo, Qux>>
    /\ Cardinality({ k \in 1..Len(ret.str) : ret.str[k] = "\n" }) = 2

\* C4: the iteration order of the usernames is the order of each username's
\* first successful set; a later set of a present username does not move it.
C4_InsertionOrder == Keys(entries) = firstSeen

\* the username set first was set again after a second one was added
C4_Witness ==
    /\ IsSet(call) /\ ret.kind = "Ok"
    /\ Len(entries) = 2
    /\ entries[1].u = call.username
    /\ entries[1].p = trace.encrypted

\* C5: verify returns false for a username never set, and for an entry last set
\* by a SHA-512-crypt variant it returns true exactly for the password of that
\* last successful set.
C5_Verify ==
    /\ \A u \in AllUsernames, p \in Passwords :
          /\ ~lastOk[u].set => ~verify(entries, u, p)
          /\ (lastOk[u].set /\ lastOk[u].sha) =>
                (verify(entries, u, p) <=> p = lastOk[u].password)
    /\ call.op = "verify" =>
          /\ ret.kind = "bool"
          /\ ~lastOk[call.username].set => ~ret.bool
          /\ (lastOk[call.username].set /\ lastOk[call.username].sha) =>
                (ret.bool <=> call.password = lastOk[call.username].password)

\* verify accepted the password of an entry hashed with a rounds clause
C5_Witness ==
    /\ call.op = "verify" /\ ret.bool
    /\ lastOk[call.username].sha
    /\ get(entries, call.username).v[4] = "rounds="

InRange(n, lo, hi) == lo <= n /\ n <= hi

\* C6: set_with returns an error whenever the bcrypt cost is outside
\* MIN_COST..MAX_COST and whenever the SHA-512-crypt rounds value is outside
\* MIN_ROUNDS..MAX_ROUNDS; it returns Ok only with a hash, which is then stored.
C6_OutOfRangeIsError ==
    IsSet(call) =>
        /\ (call.algo.tag = "Bcrypt" /\ ~InRange(call.algo.n, MIN_COST, MAX_COST)) =>
              ret.kind = "Err"
        /\ (call.algo.tag = "Sha512" /\ ~InRange(call.algo.n, MIN_ROUNDS, MAX_ROUNDS)) =>
              ret.kind = "Err"
        /\ ret.kind = "Ok" =>
              (trace.encrypted # <<>> /\ get(entries, call.username).v = trace.encrypted)

\* C7: to_string, verify and write_to_path leave the table as it was, whether
\* the write succeeds or fails; only set / set_with change it; write_to_path
\* makes exactly one file write, of the to_string output.
C7_ReadersLeaveTable ==
    [][ /\ call'.op \in {"to_string", "verify", "write_to_path"} => entries' = entries
        /\ entries' # entries => IsSet(call')
        /\ call'.op = "write_to_path" =>
              /\ Len(trace'.fswrites) = 1
              /\ trace'.fswrites[1].data = to_string(entries)
              /\ (ret'.kind = "Ok") <=> trace'.fswrites[1].ok
        /\ call'.op # "write_to_path" => trace'.fswrites = <<>>
      ]_vars

\* a write to an unwritable path failed on a table of two entries
C7_Witness ==
    /\ call.op = "write_to_path" /\ ret.kind = "Err"
    /\ Len(entries) = 2
    /\ Len(trace.fswrites) = 1

\* a cost field: two decimal digits
TwoDigits(c) == ToString(c \div 10) \o ToString(c % 10)

IsBcrypt2a(h, cost) ==
    /\ Len(h) = 7
    /\ h[1] = "$" /\ h[2] = "2a" /\ h[3] = "$" /\ h[4] = TwoDigits(cost) /\ h[5] = "$"

\* the cost the claim gives each bcrypt variant
C8_Cost(algo) ==
    CASE algo.tag = "Bcrypt" -> algo.n
      [] algo.tag = "BcryptMinCost" -> 4
      [] algo.tag = "BCryptDefault" -> 12

\* C8: every hash stored by set or by a bcrypt variant of set_with has the
\* version tag 2a and the resolved cost in its cost field; set on a fresh table
\* followed by to_string yields exactly one line username:hash.
C8_Bcrypt2aCost ==
    /\ (IsSet(call) /\ ret.kind = "Ok"
            /\ call.algo.tag \in {"Bcrypt", "BcryptMinCost", "BCryptDefault"}) =>
          IsBcrypt2a(get(entries, call.username).v, C8_Cost(call.algo))
    /\ (call.op = "to_string" /\ Len(entries) = 1 /\ lastOk[entries[1].u].by = "set") =>
          LET u == entries[1].u
              h == SubSeq(ret.str, Len(u) + 2, Len(ret.str) - 1)
          IN  /\ SubSeq(ret.str, 1, Len(u) + 1) = u \o <<":">>
              /\ IsBcrypt2a(h, 12)
              /\ ret.str[Len(ret.str)] = "\n"
              /\ Cardinality({ k \in 1..Len(ret.str) : ret.str[k] = "\n" }) = 1

\* the table set once by set was serialized
C8_Witness ==
    /\ call.op = "to_string"
    /\ Len(entries) = 1
    /\ lastOk[entries[1].u].by = "set"
    /\ Len(ret.str) = 10

FamilySite(algo) ==
    IF algo.tag \in {"Bcrypt", "BcryptMinCost", "BCryptDefault"}
    THEN "bcrypt::hash_with_result"
    ELSE "sha512_crypt::hash_with"

\* the fully-specified variant the claim gives each variant
C9_Resolved(algo) ==
    CASE algo.tag = "BCryptDefault" -> Alg("Bcrypt", 12)
      [] algo.tag = "BcryptMinCost" -> Alg("Bcrypt", 4)
      [] algo.tag = "Sha512MinRounds" -> Alg("Sha512", 1000)
      [] algo.tag = "Sha512Default" -> Alg("Sha512", 5000)
      [] OTHER -> algo

Last(seq) == seq[Len(seq)]

\* C9 as stated: every call ends in the fully-specified variant of its family
\* after at most one resolution step, so each family has one hashing call.
C9_AllResolved ==
    IsSet(call) =>
        /\ (call.op = "set" => call.algo = Alg("BCryptDefault", 0))
        /\ trace.chain[1] = call.algo
        /\ Len(trace.chain) <= 2
        /\ Last(trace.chain) = C9_Resolved(call.algo)
        /\ Last(trace.chain).tag \in {"Bcrypt", "Sha512"}
        /\ trace.site = FamilySite(call.algo)

\* C9 amended: as stated for set, BCryptDefault, BcryptMinCost and
\* Sha512MinRounds; Sha512Default is not resolved: it is hashed as entered,
\* by the primitive's default-rounds call, a second SHA-512 hashing call.
C9_ResolvedButSha512Default ==
    IsSet(call) =>
        /\ (call.op = "set" => call.algo = Alg("BCryptDefault", 0))
        /\ trace.chain[1] = call.algo
        /\ Len(trace.chain) <= 2
        /\ IF call.algo.tag = "Sha512Default"
           THEN /\ trace.chain = <<call.algo>>
                /\ trace.site = "sha512_crypt::hash"
           ELSE /\ Last(trace.chain) = C9_Resolved(call.algo)
                /\ Last(trace.chain).tag \in {"Bcrypt", "Sha512"}
                /\ trace.site = FamilySite(call.algo)

\* Sha512Default stored a hash without having been resolved
C9_Witness ==
    /\ call.op = "set_with" /\ ret.kind = "Ok"
    /\ call.algo.tag = "Sha512Default"
    /\ trace.chain = <<call.algo>>
    /\ get(entries, call.username).v = trace.encrypted

\* C10: a successful set / set_with of u changes only u's entry: the others keep
\* hash and position, the size grows by 1 if u was absent and by 0 otherwise;
\* no step removes a username or shrinks the table.
C10_SetFrame ==
    [][ /\ (IsSet(call') /\ ret'.kind = "Ok") =>
              /\ \A i \in 1..Len(entries) :
                    entries[i].u # call'.username =>
                        (i <= Len(entries') /\ entries'[i] = entries[i])
              /\ Len(entries') =
                    Len(entries) + (IF get(entries, call'.username).some THEN 0 ELSE 1)
        /\ Len(entries') >= Len(entries)
        /\ \A i \in 1..Len(entries) : get(entries', entries[i].u).some
      ]_vars

\* a second username was added behind the first
C10_Witness ==
    /\ IsSet(call) /\ ret.kind = "Ok"
    /\ Len(entries) = 2
    /\ entries[2].u = call.username
    /\ entries[1].p # entries[2].p

====
